---- MODULE Spec2Model ----
(***************************************************************************)
(* Process supervisor and remote-debugging client of electron-mcp-server  *)
(* (src/src/services/process-manager.ts, which also carries the           *)
(* cdp-client module from line 391 on).                                    *)
(*                                                                         *)
(* The program runs on one event loop: every action below is one turn of   *)
(* that loop, i.e. the code of one handler from the point where it is      *)
(* entered or resumed up to its next await or its return.                  *)
(***************************************************************************)
EXTENDS Integers, Sequences, FiniteSets, TLC

(* ------------------------------ bounds -------------------------------- *)
MaxProcs == 2      \* records created (Spec)
MaxCalls == 2      \* calls made by the outer shell (Spec)
MaxChain == 7      \* records created (SpecRecovery)
RecoveryCalls == 1 \* calls made by the outer shell (SpecRecovery)
ClientCalls == 3   \* calls made by the outer shell (SpecClient)
MaxClients == 2    \* protocol connections opened
MaxEvents == 1     \* protocol events and output chunks delivered
LifeCalls == 2     \* calls of the outer shell in the lifecycle specification
AdoptedCalls == 4  \* calls of the outer shell in the adopted specification
LogCalls == 2      \* calls of the outer shell in the log specification
EventCalls == 3    \* calls of the outer shell in the events specification
DiscoverCalls == 2 \* calls of the outer shell in the discovery specification
PortCalls == 2     \* calls of the outer shell in the ports specification
ExitCalls == 2     \* calls of the outer shell in the exit specification
RestartCalls == 2  \* calls of the outer shell in the restart specification
RefreshCalls == 3  \* calls of the outer shell in the refresh specification
FrameCalls == 2    \* calls of the outer shell in the frame specification
StatusCalls == 2   \* calls of the outer shell in the status specification

(* ------------------------- program constants -------------------------- *)
maxReconnects == 5
BaseDelay == 2000
StartSettleDelay == 2000
ReloadSettleDelay == 1500
FreshnessWindow == 5000
PortMin == 9222
PortMax == 9999
CommonPorts == <<9222, 9223, 9229>>

(* --------------------------- input domains ---------------------------- *)
NoPort == 0                       \* debugPort not supplied (undefined)
NoClient == 0                     \* cdpClient undefined
NoTime == -1                      \* lastTargetUpdate undefined
Existing == "existing"            \* appPath sentinel of adopted records
AppPaths == {"/apps/demo"}
SuppliedPorts == {NoPort, 9223}
\* Math.random() gives k / RandomGrain for some k in 0 .. RandomGrain - 1; the draws that
\* are modelled are the least and the greatest.
RandomGrain == 1000
RandomDraws == {0, RandomGrain - 1}

RandomPort_OffByOne(k) == (k * (PortMax - PortMin + 2)) \div RandomGrain + PortMin

\* Math.floor(Math.random() * (9999 - 9222 + 1)) + 9222
RandomPort(k) == (k * (PortMax - PortMin + 1)) \div RandomGrain + PortMin

RandomPorts == {RandomPort(k) : k \in RandomDraws}
ExistingPorts == {9222}
NullCode == -1                    \* exit code null: the child was killed by a signal
ExitCodes == {0, 1, NullCode}
NoExit == -2
OutputStreams == {"stdout", "stderr"}
TargetIds == {"A", "B"}
TargetLists == {<<>>, <<"A">>}
CloseOutcomes == {"closed", "threw"}
EventKinds ==
  {"consoleAPICalled", "exceptionThrown", "requestWillBeSent", "responseReceived",
   "securityStateChanged"}
ConsoleTypes == {"log", "error", "warning"}
Statuses == {200, 299, 300, 399, 400, 404}
SecurityStates == {"secure", "insecure"}
\* How updateCDPTargets fails after its GET was sent: the request fails, times out or is
\* answered outside 2xx; the body is no JSON; the body is the JSON value null.
RefreshFailures == {"failed", "invalid", "null"}
NoScope == "undefined"            \* discoverApps called with no scope
Scopes == {"managed", "network", "all", NoScope}
\* What GET /json/list gives on a live port: a JSON array, other JSON, or no JSON; or the
\* request fails.
Documents == {"array", "object", "invalid", "failed"}

VARIABLES
  now,                \* reading of Date.now(); it advances as timers expire
  procs,              \* the ElectronProcess objects ever created, by object identity
  electronProcesses,  \* the registry Map: id -> object identity
  clients,            \* the CDP client objects ever opened
  tasks,              \* async calls suspended at an await
  timers,             \* crash-recovery reloads scheduled with setTimeout
  nCalls,             \* number of calls made by the outer shell
  nEvents,            \* number of remote events delivered
  returned            \* what the last completed call returned

vars == <<now, procs, electronProcesses, clients, tasks, timers, nCalls, nEvents, returned>>

(* ------------------------------ helpers ------------------------------- *)
Max(a, b) == IF a >= b THEN a ELSE b

MapSet(m, k, v) == [x \in (DOMAIN m) \cup {k} |-> IF x = k THEN v ELSE m[x]]

Range(s) == {s[i] : i \in 1..Len(s)}

\* `electron-${Date.now()}`
StartId(t) == <<"electron", t>>

\* `electron-existing-${port}`
ExistingId(port) == <<"electron-existing", port>>

\* An id no record is registered under.
UnknownId == <<"electron", -1>>

Heap == 1..Len(procs)

TimedPcs == {"settle", "wait"}

PendingDues == {t.due : t \in timers} \cup {k.due : k \in {x \in tasks : x.pc \in TimedPcs}}

\* Node runs expired timers in order of expiry.
CanFire(due) == \A d \in PendingDues : due <= d

\* The result of discoverApps, with its history: the scope argument, the ports probed for
\* liveness, and the live ports whose listing was a JSON array.
NoDiscovery ==
  [scope |-> "", managed |-> {}, network |-> <<>>, gParam |-> "", gProbed |-> {}, gServing |-> {}]

\* What the call that returned last gave its caller, and what it left behind: tid numbers
\* the call, ok is FALSE when it threw (for stopElectronApp: when it returned false), threw
\* tells that a close inside the call threw.
NoReturn ==
  [op |-> "none", tid |-> 0, h |-> 0, ok |-> TRUE, status |-> "none", cdpClient |-> NoClient,
   threw |-> FALSE, discovery |-> NoDiscovery, list |-> <<>>]

Task(tid, op, pc, h) ==
  [tid |-> tid, op |-> op, pc |-> pc, h |-> h, due |-> 0, target |-> "", client |-> NoClient,
   appPath |-> "", debugPort |-> NoPort, reconnect |-> FALSE, src |-> 0, auto |-> FALSE,
   gSends |-> 0, gOpens |-> 0, found |-> NoDiscovery, port |-> 0, gRegistry |-> {}]

Init ==
  /\ now = 0
  /\ procs = <<>>
  /\ electronProcesses = <<>>
  /\ clients = <<>>
  /\ tasks = {}
  /\ timers = {}
  /\ nCalls = 0
  /\ nEvents = 0
  /\ returned = NoReturn


(* ------------------------- process supervisor ------------------------- *)
NewElectronProcess_Stopped(id, debugPort, appPath, reconnect, t) ==
  [id |-> id, process |-> "alive", status |-> "stopped", debugPort |-> debugPort,
   startTime |-> t, logBuffer |-> <<>>, appPath |-> appPath, reconnect |-> reconnect,
   reconnectAttempts |-> 0, cdpClient |-> NoClient,
   hasTargets |-> FALSE, targets |-> <<>>, lastTargetUpdate |-> NoTime,
   gOrigin |-> "start", gSrc |-> 0, gChain |-> 0, gAfterStop |-> FALSE, gUserStopped |-> FALSE,
   gStopped |-> FALSE, gExitCode |-> NoExit, gRefreshed |-> 0]

\* The record literal of startElectronApp. The g-fields are history, not program
\* state: how the record came to be (start, reload, auto), the record it restarts,
\* the number of automatic reloads behind it, whether that record had been stopped by a
\* caller (with no reload call since), whether this one was stopped, by a caller or at all,
\* the code its child exited with, and the number of updateCDPTargets calls made on it
\* directly that wrote a list.
NewElectronProcess(id, debugPort, appPath, reconnect, t) ==
  [id |-> id, process |-> "alive", status |-> "running", debugPort |-> debugPort,
   startTime |-> t, logBuffer |-> <<>>, appPath |-> appPath, reconnect |-> reconnect,
   reconnectAttempts |-> 0, cdpClient |-> NoClient,
   hasTargets |-> FALSE, targets |-> <<>>, lastTargetUpdate |-> NoTime,
   gOrigin |-> "start", gSrc |-> 0, gChain |-> 0, gAfterStop |-> FALSE, gUserStopped |-> FALSE,
   gStopped |-> FALSE, gExitCode |-> NoExit, gRefreshed |-> 0]

\* The record literal of connectToExistingElectronApp.
ExistingElectronProcess(port, targets) ==
  [id |-> ExistingId(port), process |-> "null", status |-> "running", debugPort |-> port,
   startTime |-> now,
   logBuffer |-> <<[type |-> "console", source |-> "mcp-server", ev |-> 0]>>,
   appPath |-> Existing, reconnect |-> FALSE,
   reconnectAttempts |-> 0, cdpClient |-> NoClient,
   hasTargets |-> TRUE, targets |-> targets, lastTargetUpdate |-> NoTime,
   gOrigin |-> "connect", gSrc |-> 0, gChain |-> 0, gAfterStop |-> FALSE, gUserStopped |-> FALSE,
   gStopped |-> FALSE, gExitCode |-> NoExit, gRefreshed |-> 0]

\* debugPort of startElectronApp: the caller's value (0 counts as none), else a random
\* port.
PortChoices(supplied) == IF supplied = NoPort THEN RandomPorts ELSE {supplied}

\* cdpClient.close(): the connection is closed unless close throws.
CloseClient(cs, c, outcome) ==
  IF outcome = "closed" THEN [cs EXCEPT ![c].open = FALSE]
  ELSE [cs EXCEPT ![c].closeThrew = TRUE]

ExitStatus_Falsy(code) == IF code = 0 \/ code = NullCode THEN "stopped" ELSE "crashed"

\* const status = code === 0 ? 'stopped' : 'crashed'
ExitStatus(code) == IF code = 0 THEN "stopped" ELSE "crashed"

CountAttempt_AnyCrash(rec, status) ==
  IF status = "crashed" THEN rec.reconnectAttempts + 1 ELSE rec.reconnectAttempts

\* reconnectAttempts counted by the exit handler for a crashed record with reconnect.
CountAttempt(rec, status) ==
  IF status = "crashed" /\ rec.reconnect THEN rec.reconnectAttempts + 1 ELSE rec.reconnectAttempts

SchedulesReload_IgnoresFlag(rec, status) ==
  /\ status = "crashed"
  /\ rec.reconnectAttempts + 1 <= maxReconnects

\* The exit handler schedules a reload.
SchedulesReload(rec, status) ==
  /\ status = "crashed"
  /\ rec.reconnect
  /\ CountAttempt(rec, status) <= maxReconnects

\* Delay given to setTimeout by the exit handler.
ReconnectDelay(attempts) == BaseDelay * attempts

OnExit_ClearsLog(rec, code) ==
  [rec EXCEPT !.process = "exited",
              !.status = ExitStatus(code),
              !.cdpClient = NoClient,
              !.logBuffer = <<>>,
              !.reconnectAttempts = CountAttempt(rec, ExitStatus(code))]

\* The record after its exit handler ran.
OnExit(rec, code) ==
  [rec EXCEPT !.process = "exited",
              !.status = ExitStatus(code),
              !.cdpClient = NoClient,
              !.reconnectAttempts = CountAttempt(rec, ExitStatus(code))]

Handled_StopsAtThrow(rec, code, outcome) ==
  IF outcome = "threw"
  THEN [rec EXCEPT !.process = "exited", !.status = ExitStatus(code), !.gExitCode = code]
  ELSE [OnExit(rec, code) EXCEPT !.gExitCode = code]

\* The record once the whole exit handler ran: an error of cdpClient.close() is caught
\* and logged, and the statements after the try block run all the same.
Handled(rec, code, outcome) == [OnExit(rec, code) EXCEPT !.gExitCode = code]

StopRecord_KeepsHandleOnThrow(rec, outcome) ==
  [rec EXCEPT !.cdpClient = IF outcome = "closed" THEN NoClient ELSE @, !.status = "stopped"]

\* The record after stopElectronApp: the handle is cleared whether or not close threw,
\* the child is sent the termination signal (its exit event comes later), status stopped.
StopRecord(rec, outcome) ==
  [rec EXCEPT !.cdpClient = NoClient, !.status = "stopped"]

\* stopElectronApp(id) as called from a handler: the registry, records and clients after it.
StopProcs_ForgetsPort(id, outcome) ==
  IF id \in DOMAIN electronProcesses
  THEN [procs EXCEPT ![electronProcesses[id]] =
          [StopRecord(@, outcome) EXCEPT !.gStopped = TRUE, !.debugPort = NoPort]]
  ELSE procs

StopProcs(id, outcome) ==
  IF id \in DOMAIN electronProcesses
  THEN [procs EXCEPT ![electronProcesses[id]] = [StopRecord(@, outcome) EXCEPT !.gStopped = TRUE]]
  ELSE procs

StopClients(id, outcome) ==
  IF id \in DOMAIN electronProcesses /\ procs[electronProcesses[id]].cdpClient # NoClient
  THEN CloseClient(clients, procs[electronProcesses[id]].cdpClient, outcome)
  ELSE clients

StartElectronApp_InPlace(tk, appPath, supplied, reconnect, origin, src, limit, t) ==
  /\ Len(procs) < limit
  /\ \E port \in PortChoices(supplied) :
       LET id == StartId(t)
           rec == [NewElectronProcess(id, port, appPath, reconnect, t) EXCEPT
                     !.gOrigin = origin, !.gSrc = src,
                     !.gChain = IF origin = "auto" THEN procs[src].gChain + 1 ELSE 0,
                     !.gAfterStop = IF src = 0 THEN FALSE ELSE procs[src].gUserStopped]
           h == IF src = 0 THEN Len(procs) + 1 ELSE src
       IN /\ procs' = IF src = 0 THEN Append(procs, rec) ELSE [procs EXCEPT ![src] = rec]
          /\ electronProcesses' = MapSet(electronProcesses, id, h)
          /\ tasks' = (tasks \ {tk}) \cup
                      {[tk EXCEPT !.op = "start", !.pc = "settle", !.h = h,
                                  !.debugPort = supplied, !.due = t + StartSettleDelay]}

\* startElectronApp up to its first await (the settle delay): spawns the child, builds the
\* record and registers it under its id. tk is the suspended call that continues.
StartElectronApp(tk, appPath, supplied, reconnect, origin, src, limit, t) ==
  /\ Len(procs) < limit
  /\ \E port \in PortChoices(supplied) :
       LET id == StartId(t)
           rec == [NewElectronProcess(id, port, appPath, reconnect, t) EXCEPT
                     !.gOrigin = origin, !.gSrc = src,
                     !.gChain = IF origin = "auto" THEN procs[src].gChain + 1 ELSE 0,
                     !.gAfterStop = IF src = 0 THEN FALSE ELSE procs[src].gUserStopped]
           h == Len(procs) + 1
       IN /\ procs' = Append(procs, rec)
          /\ electronProcesses' = MapSet(electronProcesses, id, h)
          /\ tasks' = (tasks \ {tk}) \cup
                      {[tk EXCEPT !.op = "start", !.pc = "settle", !.h = h,
                                  !.debugPort = supplied, !.due = t + StartSettleDelay]}

\* The outer shell calls startElectronApp(appPath, {debugPort, reconnect}).
StartCall(limit, reconnects, supplieds, calls) ==
  /\ nCalls < calls
  /\ \E appPath \in AppPaths, supplied \in supplieds, reconnect \in reconnects :
       StartElectronApp(Task(nCalls + 1, "start", "new", 0), appPath, supplied, reconnect,
                        "start", 0, limit, now)
  /\ nCalls' = nCalls + 1
  /\ UNCHANGED <<now, clients, timers, nEvents, returned>>

\* The settle delay of startElectronApp elapsed: updateCDPTargets sends its HTTP GET.
StartSettled ==
  \E tk \in tasks :
    /\ tk.op = "start" /\ tk.pc = "settle"
    /\ CanFire(tk.due)
    /\ now' = Max(now, tk.due)
    /\ tasks' = (tasks \ {tk}) \cup {[tk EXCEPT !.pc = "discover"]}
    /\ UNCHANGED <<procs, electronProcesses, clients, timers, nCalls, nEvents, returned>>

ApplyTargets_ListOnly(rec, targets) ==
  [rec EXCEPT !.hasTargets = TRUE, !.targets = targets]

\* updateCDPTargets after a successful GET: the list and its time stamp.
ApplyTargets(rec, targets) ==
  [rec EXCEPT !.hasTargets = TRUE, !.targets = targets, !.lastTargetUpdate = now]

StartReturn_FailsWithoutTargets(tk, ps) ==
  [NoReturn EXCEPT !.op = "start", !.tid = tk.tid, !.h = tk.h, !.status = ps[tk.h].status,
                   !.cdpClient = ps[tk.h].cdpClient, !.ok = ps[tk.h].hasTargets]

\* What startElectronApp resolves with.
StartReturn(tk, ps) ==
  [NoReturn EXCEPT !.op = "start", !.tid = tk.tid, !.h = tk.h, !.status = ps[tk.h].status,
                   !.cdpClient = ps[tk.h].cdpClient]

\* The initial updateCDPTargets of startElectronApp completes (a failure is only logged)
\* and startElectronApp returns the record.
StartDiscovered(lists) ==
  \E tk \in tasks :
    /\ tk.op = "start" /\ tk.pc = "discover"
    /\ \/ \E targets \in lists : procs' = [procs EXCEPT ![tk.h] = ApplyTargets(@, targets)]
       \/ procs' = procs
    /\ tasks' = tasks \ {tk}
    /\ returned' = StartReturn(tk, procs')
    /\ UNCHANGED <<now, electronProcesses, clients, timers, nCalls, nEvents>>

\* logBuffer.push(...): the entries go to the end of the buffer.
PushEntries(buf, entries) == buf \o entries

\* The child writes to stdout or stderr: the data handler appends one console entry.
OutputData ==
  /\ nEvents < MaxEvents
  /\ \E h \in Heap, stream \in OutputStreams :
       /\ procs[h].process = "alive"
       /\ procs' = [procs EXCEPT ![h].logBuffer =
                      PushEntries(@, <<[type |-> "console", source |-> stream, ev |-> nEvents + 1]>>)]
  /\ nEvents' = nEvents + 1
  /\ UNCHANGED <<now, electronProcesses, clients, tasks, timers, nCalls, returned>>

\* The child's exit event.
ExitEvent(codes) ==
  \E h \in Heap, code \in codes, outcome \in CloseOutcomes :
    /\ procs[h].process = "alive"
    /\ procs' = [procs EXCEPT ![h] = Handled(@, code, outcome)]
    /\ clients' = IF procs[h].cdpClient # NoClient
                  THEN CloseClient(clients, procs[h].cdpClient, outcome) ELSE clients
    /\ (procs[h].cdpClient = NoClient => outcome = "closed")
    /\ timers' = IF SchedulesReload(procs[h], ExitStatus(code))
                 THEN timers \cup {[id |-> procs[h].id, h |-> h,
                                    delay |-> ReconnectDelay(procs'[h].reconnectAttempts),
                                    due |-> now + ReconnectDelay(procs'[h].reconnectAttempts)]}
                 ELSE timers
    /\ UNCHANGED <<now, electronProcesses, tasks, nCalls, nEvents, returned>>

StopResult_AlwaysTrue(id) == TRUE

\* What stopElectronApp(id) returns: false for an id the registry does not hold.
StopResult(id) == id \in DOMAIN electronProcesses

\* The outer shell calls stopElectronApp(id).
StopCall(calls) ==
  /\ nCalls < calls
  /\ \E id \in (DOMAIN electronProcesses) \cup {UnknownId}, outcome \in CloseOutcomes :
       /\ (id \notin DOMAIN electronProcesses \/ procs[electronProcesses[id]].cdpClient = NoClient)
             => outcome = "closed"
       /\ clients' = StopClients(id, outcome)
       /\ IF id \in DOMAIN electronProcesses
          THEN LET h == electronProcesses[id] IN
               /\ procs' = [StopProcs(id, outcome) EXCEPT ![h].gUserStopped = TRUE]
               /\ returned' = [NoReturn EXCEPT !.op = "stop", !.tid = nCalls + 1, !.h = h,
                                                !.ok = StopResult(id),
                                                !.status = procs'[h].status,
                                                !.cdpClient = procs'[h].cdpClient,
                                                !.threw = (outcome = "threw")]
          ELSE /\ procs' = procs
               /\ returned' = [NoReturn EXCEPT !.op = "stop", !.tid = nCalls + 1,
                                                !.ok = StopResult(id)]
  /\ nCalls' = nCalls + 1
  /\ UNCHANGED <<now, electronProcesses, tasks, timers, nEvents>>

NotRestartable_NoPathOnly(rec) == rec.appPath = ""

\* if (electronProcess.appPath === 'existing' || !electronProcess.appPath) throw
NotRestartable(rec) == rec.appPath = Existing \/ rec.appPath = ""

\* reloadElectronApp(id) up to its await of the settle delay. It throws for an unknown id
\* and for an adopted record, else stops the record and waits.
ReloadElectronApp(tid, id, auto, src, t) ==
  \E outcome \in CloseOutcomes :
    /\ (id \notin DOMAIN electronProcesses \/ procs[electronProcesses[id]].cdpClient = NoClient)
          => outcome = "closed"
    /\ IF id \notin DOMAIN electronProcesses
       THEN /\ returned' = IF auto THEN returned
                            ELSE [NoReturn EXCEPT !.op = "reload", !.tid = tid, !.ok = FALSE]
            /\ UNCHANGED <<procs, clients, tasks>>
       ELSE LET h == electronProcesses[id] IN
            IF NotRestartable(procs[h])
            THEN /\ returned' = IF auto THEN returned
                                 ELSE [NoReturn EXCEPT !.op = "reload", !.tid = tid, !.h = h,
                                                       !.ok = FALSE,
                                                       !.status = procs[h].status,
                                                       !.cdpClient = procs[h].cdpClient]
                 /\ UNCHANGED <<procs, clients, tasks>>
            ELSE /\ procs' = [StopProcs(id, outcome) EXCEPT
                                 ![h].gUserStopped = IF auto THEN @ ELSE FALSE]
                 /\ clients' = StopClients(id, outcome)
                 /\ tasks' = tasks \cup
                      {[Task(tid, "reload", "wait", h) EXCEPT
                          !.due = t + ReloadSettleDelay,
                          !.appPath = procs[h].appPath, !.debugPort = procs[h].debugPort,
                          !.reconnect = procs[h].reconnect,
                          !.src = IF auto THEN src ELSE h, !.auto = auto]}
                 /\ UNCHANGED returned

\* The outer shell calls reloadElectronApp(id).
ReloadCall(calls) ==
  /\ nCalls < calls
  /\ \E id \in (DOMAIN electronProcesses) \cup {UnknownId} :
       ReloadElectronApp(nCalls + 1, id, FALSE, 0, now)
  /\ nCalls' = nCalls + 1
  /\ UNCHANGED <<now, electronProcesses, timers, nEvents>>

\* A crash-recovery timer fires: reloadElectronApp(id), a rejection is only logged.
ReconnectTimer ==
  \E t \in timers :
    /\ CanFire(t.due)
    /\ now' = Max(now, t.due)
    /\ timers' = timers \ {t}
    /\ ReloadElectronApp(100 + t.h, t.id, TRUE, t.h, Max(now, t.due))
    /\ UNCHANGED <<electronProcesses, nCalls, nEvents>>

\* The settle delay of reloadElectronApp elapsed: it calls startElectronApp with the
\* appPath, debugPort and reconnect it read from the old record.
ReloadSettled(limit) ==
  \E tk \in tasks :
    /\ tk.op = "reload" /\ tk.pc = "wait"
    /\ CanFire(tk.due)
    /\ now' = Max(now, tk.due)
    /\ StartElectronApp(tk, tk.appPath, tk.debugPort, tk.reconnect,
                        IF tk.auto THEN "auto" ELSE "reload", tk.src, limit, Max(now, tk.due))
    /\ UNCHANGED <<clients, timers, nCalls, nEvents, returned>>

\* The outer shell calls connectToExistingElectronApp(port): the HTTP GET is sent.
ConnectCall(calls) ==
  /\ nCalls < calls
  /\ \E port \in ExistingPorts :
       tasks' = tasks \cup {[Task(nCalls + 1, "connect", "list", 0) EXCEPT !.debugPort = port]}
  /\ nCalls' = nCalls + 1
  /\ UNCHANGED <<now, procs, electronProcesses, clients, timers, nEvents, returned>>

NoTargets_Never(targets) == FALSE

\* if (!Array.isArray(targets) || targets.length === 0) throw, for a listing that parsed
\* as an array.
NoTargets(targets) == Len(targets) = 0

\* The target listing of connectToExistingElectronApp arrives, or fails. Without at least
\* one target the call throws; else the adopted record is built and registered.
ConnectListed(limit) ==
  \E tk \in tasks :
    /\ tk.op = "connect" /\ tk.pc = "list"
    /\ tasks' = tasks \ {tk}
    /\ \/ \E targets \in TargetLists :
            IF NoTargets(targets)
            THEN /\ returned' = [NoReturn EXCEPT !.op = "connect", !.tid = tk.tid, !.ok = FALSE]
                 /\ UNCHANGED <<procs, electronProcesses>>
            ELSE /\ Len(procs) < limit
                 /\ procs' = Append(procs, ExistingElectronProcess(tk.debugPort, targets))
                 /\ electronProcesses' =
                      MapSet(electronProcesses, ExistingId(tk.debugPort), Len(procs) + 1)
                 /\ returned' = [NoReturn EXCEPT !.op = "connect", !.tid = tk.tid,
                                                  !.h = Len(procs) + 1, !.status = "running"]
       \/ /\ returned' = [NoReturn EXCEPT !.op = "connect", !.tid = tk.tid, !.ok = FALSE]
          /\ UNCHANGED <<procs, electronProcesses>>
    /\ UNCHANGED <<now, clients, timers, nCalls, nEvents>>

(* --------------------------- target discovery -------------------------- *)
RefreshApplied_FirstWins(ps, h, targets) ==
  IF ps[h].lastTargetUpdate # NoTime
  THEN [ps EXCEPT ![h].gRefreshed = @ + 1]
  ELSE [ps EXCEPT ![h] = [ApplyTargets(@, targets) EXCEPT !.gRefreshed = @ + 1]]

\* The records after updateCDPTargets wrote the list it parsed and the time stamp.
RefreshApplied(ps, h, targets) ==
  [ps EXCEPT ![h] = [ApplyTargets(@, targets) EXCEPT !.gRefreshed = @ + 1]]

\* The record after updateCDPTargets parsed the body null: targets = null and the time
\* stamp are assigned, then reading targets.length for the log line throws.
ApplyNull(rec) ==
  [rec EXCEPT !.hasTargets = FALSE, !.targets = <<>>, !.lastTargetUpdate = now]

\* What updateCDPTargets gives its caller: the list, or the error it rethrows.
RefreshReturn(tk, ok, targets) ==
  [NoReturn EXCEPT !.op = "refresh", !.tid = tk.tid, !.h = tk.h, !.ok = ok, !.list = targets]

\* A caller invokes the exported updateCDPTargets(record): without a debug port it throws
\* at once, else the HTTP GET is sent.
RefreshCall(calls) ==
  /\ nCalls < calls
  /\ \E h \in Heap :
       LET tk == Task(nCalls + 1, "refresh", "get", h)
       IN IF procs[h].debugPort = NoPort
          THEN /\ returned' = RefreshReturn(tk, FALSE, <<>>)
               /\ tasks' = tasks
          ELSE /\ tasks' = tasks \cup {tk}
               /\ UNCHANGED returned
  /\ nCalls' = nCalls + 1
  /\ UNCHANGED <<now, procs, electronProcesses, clients, timers, nEvents>>

\* The GET of updateCDPTargets settles: the parsed list and the time stamp are written and
\* the list returned, or the error is logged and rethrown.
RefreshDone ==
  \E tk \in tasks :
    /\ tk.op = "refresh" /\ tk.pc = "get"
    /\ tasks' = tasks \ {tk}
    /\ \/ \E targets \in TargetLists :
            /\ procs' = RefreshApplied(procs, tk.h, targets)
            /\ returned' = RefreshReturn(tk, TRUE, targets)
       \/ \E failure \in RefreshFailures :
            /\ procs' = IF failure = "null"
                         THEN [procs EXCEPT ![tk.h] = ApplyNull(@)]
                         ELSE procs
            /\ returned' = RefreshReturn(tk, FALSE, <<>>)
    /\ UNCHANGED <<now, electronProcesses, clients, timers, nCalls, nEvents>>

(* ------------------------------ discovery ------------------------------ *)
\* const { scope = 'all' } = params
ScopeOrDefault(param) == IF param = NoScope THEN "all" ELSE param

\* Array.from(electronProcesses.values())
Registered == {electronProcesses[id] : id \in DOMAIN electronProcesses}

ServesTargetList_AnyAnswer(doc) == doc # "failed"

\* JSON.parse(response) gives a value and Array.isArray holds of it.
ServesTargetList(doc) == doc = "array"

\* What discoverApps returns.
DiscoverReturn(tk) ==
  [NoReturn EXCEPT !.op = "discover", !.tid = tk.tid, !.discovery = tk.found]

\* The outer shell calls discoverApps({scope}). The managed part is read from the registry
\* at once; the network part starts scanForElectronApps at its first port.
DiscoverCall(calls) ==
  /\ nCalls < calls
  /\ \E param \in Scopes :
       LET scope == ScopeOrDefault(param)
           tk == [Task(nCalls + 1, "discover", "probe", 0) EXCEPT
                    !.found.scope = scope,
                    !.found.gParam = param,
                    !.found.managed = IF scope \in {"managed", "all"} THEN Registered ELSE {},
                    !.port = 1,
                    !.gRegistry = Registered]
       IN IF scope \in {"network", "all"}
          THEN /\ tasks' = tasks \cup {tk}
               /\ UNCHANGED returned
          ELSE /\ tasks' = tasks
               /\ returned' = DiscoverReturn(tk)
  /\ nCalls' = nCalls + 1
  /\ UNCHANGED <<now, procs, electronProcesses, clients, timers, nEvents>>

\* The loop of scanForElectronApps is done with a port: on to the next one, or return.
NextPort(old, tk) ==
  IF tk.port < Len(CommonPorts)
  THEN /\ tasks' = (tasks \ {old}) \cup {[tk EXCEPT !.port = @ + 1, !.pc = "probe"]}
       /\ UNCHANGED returned
  ELSE /\ tasks' = tasks \ {old}
       /\ returned' = DiscoverReturn(tk)

\* checkPortInUse(port) resolves: something accepted the connection, or nothing did.
PortProbed ==
  \E tk \in tasks :
    /\ tk.op = "discover" /\ tk.pc = "probe"
    /\ \E live \in BOOLEAN :
         LET probed == [tk EXCEPT !.found.gProbed = @ \cup {CommonPorts[tk.port]}]
         IN IF live
            THEN /\ tasks' = (tasks \ {tk}) \cup {[probed EXCEPT !.pc = "fetch"]}
                 /\ UNCHANGED returned
            ELSE NextPort(tk, probed)
    /\ UNCHANGED <<now, procs, electronProcesses, clients, timers, nCalls, nEvents>>

\* The GET of /json/list on a live port settles: the port is kept if the answer is a JSON
\* array; any error is swallowed.
PortListed ==
  \E tk \in tasks :
    /\ tk.op = "discover" /\ tk.pc = "fetch"
    /\ \E doc \in Documents :
         LET port == CommonPorts[tk.port]
             seen == [tk EXCEPT !.found.gServing = IF doc = "array" THEN @ \cup {port} ELSE @]
         IN NextPort(tk, IF ServesTargetList(doc)
                         THEN [seen EXCEPT !.found.network = Append(@, port)]
                         ELSE seen)
    /\ UNCHANGED <<now, procs, electronProcesses, clients, timers, nCalls, nEvents>>

(* ---------------------------- protocol client ------------------------- *)
\* connectToCDPTarget refreshes the target list first when this holds.
NeedsRefresh(rec, t) ==
  \/ ~rec.hasTargets
  \/ rec.lastTargetUpdate = NoTime
  \/ t - rec.lastTargetUpdate > FreshnessWindow

TargetFound_Always(rec, targetId) == TRUE

\* electronProcess.targets?.find(t => t.id === targetId)
TargetFound(rec, targetId) == targetId \in Range(rec.targets)

\* The payload of a protocol event: whole tells whether the fields its callback reads
\* (args, exceptionDetails, request, response) are there; tag is the console type or the
\* security state, status the HTTP status of a response.
Payload(kind, whole, tag, status) == [kind |-> kind, whole |-> whole, tag |-> tag, status |-> status]

Payloads ==
  {Payload("consoleAPICalled", TRUE, t, 0) : t \in ConsoleTypes} \cup
  {Payload("exceptionThrown", TRUE, "", 0), Payload("requestWillBeSent", TRUE, "", 0)} \cup
  {Payload("responseReceived", TRUE, "", st) : st \in Statuses} \cup
  {Payload("securityStateChanged", TRUE, t, 0) : t \in SecurityStates} \cup
  {Payload(k, FALSE, "", 0) : k \in EventKinds}

NoEvent == [n |-> 0, payload |-> Payload("none", TRUE, "", 0), raised |-> FALSE]

\* The client object CDP() resolves with.
\* gEvent is history: the protocol event delivered last on the client, its number, and
\* whether a callback raised an error on it.
NewClient(h, targetId) ==
  [owner |-> h, target |-> targetId, open |-> TRUE, listeners |-> 0, closeThrew |-> FALSE,
   gExecSubs |-> 0, gDirectSubs |-> 0, gSent |-> 0, gEvent |-> NoEvent]

\* subscribeToCDPEvents registers one more callback per event kind on the client.
SubscribeToCDPEvents(client) == [client EXCEPT !.listeners = @ + 1]

NotSubscribed_Always(client) == TRUE

\* client.listenerCount('Runtime.consoleAPICalled') === 0
NotSubscribed(client) == client.listeners = 0

\* The entries one remote event leaves in the log buffer: one per registered callback.
EventEntries(client, ev) == [i \in 1..client.listeners |-> [type |-> "cdp", source |-> "cdp", ev |-> ev]]

Catch_AlwaysClears(tk, ps) == [ps EXCEPT ![tk.h].cdpClient = NoClient]

\* The catch block of executeCDPCommand once its close resolved: the record's handle is
\* cleared if the call had a client, and left alone if it had none.
Catch(tk, ps) == IF tk.client # NoClient THEN [ps EXCEPT ![tk.h].cdpClient = NoClient] ELSE ps

AfterFailedSend_Retries(tk) == [tk EXCEPT !.pc = "open", !.gOpens = @ + 1]

\* The call after client.send rejected: it awaits client.close() in the catch block and
\* has nothing left to do but clear the handle and rethrow.
AfterFailedSend(tk) == [tk EXCEPT !.pc = "closing"]

\* What executeCDPCommand leaves its caller with: the result, or the error it rethrows.
ExecReturn(tk, ok, ps) ==
  [NoReturn EXCEPT !.op = "execute", !.tid = tk.tid, !.h = tk.h, !.ok = ok,
                   !.status = ps[tk.h].status, !.cdpClient = ps[tk.h].cdpClient]

\* The outer shell calls executeCDPCommand(record, targetId, ...). With a cached client the
\* command is sent over it; else connectToCDPTarget starts, with a refresh when needed.
ExecuteCall(calls) ==
  /\ nCalls < calls
  /\ \E h \in Heap, targetId \in TargetIds :
       LET rec == procs[h]
           tk == [Task(nCalls + 1, "execute", "send", h) EXCEPT !.target = targetId]
       IN IF rec.cdpClient # NoClient
          THEN /\ tasks' = tasks \cup {[tk EXCEPT !.client = rec.cdpClient, !.gSends = 1]}
               /\ UNCHANGED <<procs, returned>>
          ELSE IF NeedsRefresh(rec, now)
          THEN /\ tasks' = tasks \cup {[tk EXCEPT !.pc = "refresh"]}
               /\ UNCHANGED <<procs, returned>>
          ELSE IF TargetFound(rec, targetId)
          THEN /\ tasks' = tasks \cup {[tk EXCEPT !.pc = "open", !.gOpens = 1]}
               /\ UNCHANGED <<procs, returned>>
          ELSE /\ tasks' = tasks
               /\ procs' = Catch(tk, procs)
               /\ returned' = ExecReturn(tk, FALSE, procs')
  /\ nCalls' = nCalls + 1
  /\ UNCHANGED <<now, electronProcesses, clients, timers, nEvents>>

\* The refresh inside connectToCDPTarget completes; the target is looked up in the list.
ExecRefreshed ==
  \E tk \in tasks :
    /\ tk.op = "execute" /\ tk.pc = "refresh"
    /\ \/ \E targets \in TargetLists :
            IF TargetFound(ApplyTargets(procs[tk.h], targets), tk.target)
               THEN /\ procs' = [procs EXCEPT ![tk.h] = ApplyTargets(@, targets)]
                    /\ tasks' = (tasks \ {tk}) \cup {[tk EXCEPT !.pc = "open", !.gOpens = @ + 1]}
                    /\ UNCHANGED returned
               ELSE /\ procs' = Catch(tk, [procs EXCEPT ![tk.h] = ApplyTargets(@, targets)])
                    /\ tasks' = tasks \ {tk}
                    /\ returned' = ExecReturn(tk, FALSE, procs')
       \/ /\ procs' = Catch(tk, procs)
          /\ tasks' = tasks \ {tk}
          /\ returned' = ExecReturn(tk, FALSE, procs')
    /\ UNCHANGED <<now, electronProcesses, clients, timers, nCalls, nEvents>>

\* CDP() resolves: the client is stored on the record and the command is sent over it.
\* Or CDP() rejects and executeCDPCommand rethrows with no client to close.
ExecOpened ==
  \E tk \in tasks :
    /\ tk.op = "execute" /\ tk.pc = "open"
    /\ \/ /\ Len(clients) < MaxClients
          /\ clients' = Append(clients, NewClient(tk.h, tk.target))
          /\ procs' = [procs EXCEPT ![tk.h].cdpClient = Len(clients) + 1]
          /\ tasks' = (tasks \ {tk}) \cup
                      {[tk EXCEPT !.pc = "send", !.client = Len(clients) + 1, !.gSends = @ + 1]}
          /\ UNCHANGED returned
       \/ /\ tasks' = tasks \ {tk}
          /\ procs' = Catch(tk, procs)
          /\ returned' = ExecReturn(tk, FALSE, procs')
          /\ UNCHANGED clients
    /\ UNCHANGED <<now, electronProcesses, timers, nCalls, nEvents>>

\* client.send settles. On success event ingestion is subscribed unless the client already
\* has a console listener. On failure the catch block calls client.close() and awaits it;
\* if close rejects, the rejection leaves executeCDPCommand at once.
ExecSent ==
  \E tk \in tasks :
    /\ tk.op = "execute" /\ tk.pc = "send"
    /\ \/ /\ clients[tk.client].open
          /\ clients' = [clients EXCEPT ![tk.client] =
                           IF NotSubscribed(@)
                           THEN [SubscribeToCDPEvents(@) EXCEPT !.gExecSubs = @ + 1,
                                                                !.gSent = @ + 1]
                           ELSE [@ EXCEPT !.gSent = @ + 1]]
          /\ tasks' = tasks \ {tk}
          /\ returned' = ExecReturn(tk, TRUE, procs)
       \/ \E outcome \in CloseOutcomes :
            /\ clients' = CloseClient(clients, tk.client, outcome)
            /\ IF outcome = "closed"
               THEN /\ tasks' = (tasks \ {tk}) \cup {AfterFailedSend(tk)}
                    /\ UNCHANGED returned
               ELSE /\ tasks' = tasks \ {tk}
                    /\ returned' = ExecReturn(tk, FALSE, procs)
    /\ UNCHANGED <<now, procs, electronProcesses, timers, nCalls, nEvents>>

\* The awaited close resolved: the record's handle is cleared and the error rethrown.
ExecClosed ==
  \E tk \in tasks :
    /\ tk.op = "execute" /\ tk.pc = "closing"
    /\ procs' = Catch(tk, procs)
    /\ tasks' = tasks \ {tk}
    /\ returned' = ExecReturn(tk, FALSE, procs')
    /\ UNCHANGED <<now, electronProcesses, clients, timers, nCalls, nEvents>>

\* The application emits a protocol event on an open connection that has callbacks:
\* every callback registered for it appends one entry to the log buffer of its record.
\* (An event that no callback is registered for changes nothing.)
RemoteEvent ==
  /\ nEvents < MaxEvents
  /\ \E c \in 1..Len(clients) :
       /\ clients[c].open
       /\ clients[c].listeners > 0
       /\ procs' = [procs EXCEPT ![clients[c].owner].logBuffer =
                      PushEntries(@, EventEntries(clients[c], nEvents + 1))]
  /\ nEvents' = nEvents + 1
  /\ UNCHANGED <<now, electronProcesses, clients, tasks, timers, nCalls, returned>>

\* A callback reads a property of args, exceptionDetails, request or response without a
\* test and inside no try block, so it throws a TypeError when that field is missing; the
\* security callback only formats its fields.
CallbackRaises(p) == ~p.whole /\ p.kind # "securityStateChanged"

ResponseLevel_NoWarn(status) == IF status >= 400 THEN "error" ELSE "info"

\* response.status >= 400 ? 'error' : response.status >= 300 ? 'warn' : 'info'
ResponseLevel(status) ==
  IF status >= 400 THEN "error" ELSE IF status >= 300 THEN "warn" ELSE "info"

\* type of the entry a callback pushes.
EntryType(p) ==
  CASE p.kind = "consoleAPICalled" -> "console"
    [] p.kind = "exceptionThrown" -> "runtime"
    [] p.kind \in {"requestWillBeSent", "responseReceived"} -> "network"
    [] OTHER -> "security"

\* level of the entry a callback pushes.
EntryLevel(p) ==
  CASE p.kind = "consoleAPICalled" ->
         (IF p.tag = "error" THEN "error" ELSE IF p.tag = "warning" THEN "warn" ELSE "log")
    [] p.kind = "exceptionThrown" -> "error"
    [] p.kind = "requestWillBeSent" -> "info"
    [] p.kind = "responseReceived" -> ResponseLevel(p.status)
    [] OTHER -> (IF p.tag = "secure" THEN "info" ELSE "warn")

\* source of the entry a callback pushes.
EntrySource(p) ==
  CASE p.kind = "consoleAPICalled" -> "context"
    [] p.kind = "exceptionThrown" -> "runtime"
    [] p.kind = "requestWillBeSent" -> "network.request"
    [] p.kind = "responseReceived" -> "network.response"
    [] OTHER -> "security.state"

\* What the callbacks registered for an event push: one entry each, and nothing once
\* the first of them has thrown.
CallbackEntries(client, p, ev) ==
  IF CallbackRaises(p)
  THEN <<>>
  ELSE [i \in 1..client.listeners |->
          [type |-> EntryType(p), level |-> EntryLevel(p), source |-> EntrySource(p),
           ev |-> ev, payload |-> p]]

\* The application emits one of the five protocol events the callbacks are registered for,
\* with a payload that has its fields or lacks them. An error thrown by a callback leaves
\* the callback: nothing in the program catches it.
ProtocolEvent ==
  /\ nEvents < MaxEvents
  /\ \E c \in 1..Len(clients), p \in Payloads :
       /\ clients[c].open
       /\ clients[c].listeners > 0
       /\ procs' = [procs EXCEPT ![clients[c].owner].logBuffer =
                      PushEntries(@, CallbackEntries(clients[c], p, nEvents + 1))]
       /\ clients' = [clients EXCEPT ![c].gEvent =
                        [n |-> nEvents + 1, payload |-> p, raised |-> CallbackRaises(p)]]
  /\ nEvents' = nEvents + 1
  /\ UNCHANGED <<now, electronProcesses, tasks, timers, nCalls, returned>>

\* A caller invokes the exported subscribeToCDPEvents(client, record) itself.
SubscribeCall(calls) ==
  /\ nCalls < calls
  /\ \E c \in 1..Len(clients) :
       /\ clients[c].open
       /\ clients' = [clients EXCEPT ![c] = [SubscribeToCDPEvents(@) EXCEPT !.gDirectSubs = @ + 1]]
  /\ nCalls' = nCalls + 1
  /\ UNCHANGED <<now, procs, electronProcesses, tasks, timers, nEvents, returned>>

(* --------------------------- specifications --------------------------- *)
\* The program as the outer shell drives it: the supervisor operations and command
\* execution, which is the only caller of subscribeToCDPEvents there.
Next ==
  \/ StartCall(MaxProcs, BOOLEAN, SuppliedPorts, MaxCalls)
  \/ StartSettled
  \/ StartDiscovered(TargetLists)
  \/ ExitEvent(ExitCodes)
  \/ StopCall(MaxCalls)
  \/ ReloadCall(MaxCalls)
  \/ ReconnectTimer
  \/ ReloadSettled(MaxProcs)
  \/ ConnectCall(MaxCalls)
  \/ ConnectListed(MaxProcs)
  \/ ExecuteCall(MaxCalls)
  \/ ExecRefreshed
  \/ ExecOpened
  \/ ExecSent
  \/ ExecClosed
  \/ RemoteEvent

Spec == Init /\ [][Next]_vars

\* Crash recovery alone: one application started with reconnect = true that exits with
\* code 1 every time and never serves its target list, and no call of the outer shell
\* after the start.
NextRecovery ==
  \/ StartCall(MaxChain, {TRUE}, SuppliedPorts, RecoveryCalls)
  \/ StartSettled
  \/ StartDiscovered({})
  \/ ExitEvent({1})
  \/ ReconnectTimer
  \/ ReloadSettled(MaxChain)

SpecRecovery == Init /\ [][NextRecovery]_vars

\* The protocol client on a single record, owned or adopted, without crash recovery: the
\* record is created, commands are executed on it, events arrive, it is stopped or exits
\* (normally or by a signal), and a caller may also invoke the exported
\* subscribeToCDPEvents itself.
NextClient ==
  \/ StartCall(1, {FALSE}, {9223}, ClientCalls)
  \/ StartSettled
  \/ StartDiscovered(TargetLists)
  \/ ExitEvent({0, NullCode})
  \/ StopCall(ClientCalls)
  \/ ConnectCall(ClientCalls)
  \/ ConnectListed(1)
  \/ ExecuteCall(ClientCalls)
  \/ ExecRefreshed
  \/ ExecOpened
  \/ ExecSent
  \/ ExecClosed
  \/ RemoteEvent
  \/ SubscribeCall(ClientCalls)

SpecClient == Init /\ [][NextClient]_vars

\* The exit handler on applications the supervisor starts itself, with or without
\* reconnect and for every exit code, on records that are running or were stopped; the
\* target list is never served and at most two records are created.
NextLifecycle ==
  \/ StartCall(2, BOOLEAN, {9223}, LifeCalls)
  \/ StartSettled
  \/ StartDiscovered({})
  \/ ExitEvent(ExitCodes)
  \/ StopCall(LifeCalls)
  \/ ReconnectTimer
  \/ ReloadSettled(2)

SpecLifecycle == Init /\ [][NextLifecycle]_vars

\* One adopted application: it is connected to, commands are executed on it, events
\* arrive, and it is stopped or asked to reload. No record here has a child to restart, so
\* no reload gets as far as its settle delay.
NextAdopted ==
  \/ ConnectCall(AdoptedCalls)
  \/ ConnectListed(1)
  \/ ExecuteCall(AdoptedCalls)
  \/ ExecRefreshed
  \/ ExecOpened
  \/ ExecSent
  \/ ExecClosed
  \/ RemoteEvent
  \/ StopCall(AdoptedCalls)
  \/ ReloadCall(AdoptedCalls)

SpecAdopted == Init /\ [][NextAdopted]_vars

\* Everything that touches a log buffer: one application is started or adopted, writes
\* output, has commands executed on it and emits protocol events, has its child killed by
\* a signal, is stopped or reloaded (only a reload creates a second record).
NextLog ==
  \/ StartCall(1, {FALSE}, {9223}, LogCalls)
  \/ StartSettled
  \/ StartDiscovered({<<"A">>})
  \/ OutputData
  \/ ExitEvent({NullCode})
  \/ StopCall(LogCalls)
  \/ ReloadCall(LogCalls)
  \/ ReloadSettled(2)
  \/ ConnectCall(LogCalls)
  \/ ConnectListed(1)
  \/ ExecuteCall(LogCalls)
  \/ ExecRefreshed
  \/ ExecOpened
  \/ ExecSent
  \/ ExecClosed
  \/ RemoteEvent

SpecLog == Init /\ [][NextLog]_vars

\* Event ingestion on one adopted application: it is connected to, a command is executed on
\* it, which subscribes the callbacks, and the application emits protocol events.
NextEvents ==
  \/ ConnectCall(EventCalls)
  \/ ConnectListed(1)
  \/ ExecuteCall(EventCalls)
  \/ ExecRefreshed
  \/ ExecOpened
  \/ ExecSent
  \/ ExecClosed
  \/ ProtocolEvent

SpecEvents == Init /\ [][NextEvents]_vars

\* Discovery next to an application that is adopted and stopped: discoverApps is called
\* with each scope, and every port probed may be dead or live and serve any document.
NextDiscover ==
  \/ ConnectCall(DiscoverCalls)
  \/ ConnectListed(1)
  \/ StopCall(DiscoverCalls)
  \/ DiscoverCall(DiscoverCalls)
  \/ PortProbed
  \/ PortListed

SpecDiscover == Init /\ [][NextDiscover]_vars

\* The debug port of applications the supervisor starts, with and without a port given
\* by the caller, and of those it restarts on a reload call.
NextPorts ==
  \/ StartCall(2, {FALSE}, SuppliedPorts, PortCalls)
  \/ StartSettled
  \/ StartDiscovered(TargetLists)
  \/ ExitEvent({NullCode})
  \/ ReloadCall(PortCalls)
  \/ ReloadSettled(2)

SpecPorts == Init /\ [][NextPorts]_vars

\* The exit handler on an application that holds a connection: the application is started,
\* with or without reconnect, commands are executed on it, and its child exits with code 0
\* or 1 while close may throw. The reload that the handler schedules is left pending.
NextExit ==
  \/ StartCall(1, BOOLEAN, {9223}, ExitCalls)
  \/ StartSettled
  \/ StartDiscovered({<<"A">>})
  \/ ExecuteCall(ExitCalls)
  \/ ExecRefreshed
  \/ ExecOpened
  \/ ExecSent
  \/ ExecClosed
  \/ ExitEvent({0, 1})

SpecExit == Init /\ [][NextExit]_vars

\* Restarts without the protocol client: an application is started, with or without
\* reconnect, its child exits with code 0 or 1, and a reload call or crash recovery
\* restarts it, up to three records in all.
NextRestart ==
  \/ StartCall(1, BOOLEAN, {9223}, RestartCalls)
  \/ StartSettled
  \/ StartDiscovered({})
  \/ ExitEvent({0, 1})
  \/ ReloadCall(RestartCalls)
  \/ ReconnectTimer
  \/ ReloadSettled(3)

SpecRestart == Init /\ [][NextRestart]_vars

\* Target discovery called directly on one application, started or adopted, by calls
\* that may overlap each other and the discovery that start makes itself.
NextRefresh ==
  \/ StartCall(1, {FALSE}, {9223}, RefreshCalls)
  \/ StartSettled
  \/ StartDiscovered(TargetLists)
  \/ ConnectCall(RefreshCalls)
  \/ ConnectListed(1)
  \/ RefreshCall(RefreshCalls)
  \/ RefreshDone

SpecRefresh == Init /\ [][NextRefresh]_vars

\* Every operation and callback that writes to a record, without crash recovery: an
\* application is started without reconnect or adopted, is stopped, reloaded, refreshed,
\* has commands executed on it, and its child exits abnormally.
NextFrame ==
  \/ StartCall(1, {FALSE}, {9223}, FrameCalls)
  \/ StartSettled
  \/ StartDiscovered({<<"A">>})
  \/ ExitEvent({1})
  \/ StopCall(FrameCalls)
  \/ ReloadCall(FrameCalls)
  \/ ReloadSettled(2)
  \/ ConnectCall(FrameCalls)
  \/ ConnectListed(2)
  \/ ExecuteCall(FrameCalls)
  \/ ExecRefreshed
  \/ ExecOpened
  \/ ExecSent
  \/ ExecClosed
  \/ RefreshCall(FrameCalls)
  \/ RefreshDone

SpecFrame == Init /\ [][NextFrame]_vars

\* Every writer of a record's status: an application started with reconnect is stopped,
\* reloaded, has commands executed on it (by the first two calls of the outer shell), and
\* its child exits abnormally and is restarted once, by a reload call or by crash recovery.
NextStatus ==
  \/ StartCall(1, {TRUE}, {9223}, StatusCalls)
  \/ StartSettled
  \/ StartDiscovered({<<"A">>})
  \/ ExitEvent({1})
  \/ StopCall(StatusCalls)
  \/ ReloadCall(StatusCalls)
  \/ ReconnectTimer
  \/ ReloadSettled(2)
  \/ ExecuteCall(2)
  \/ ExecRefreshed
  \/ ExecOpened
  \/ ExecSent
  \/ ExecClosed

SpecStatus == Init /\ [][NextStatus]_vars

(* ------------------------------- claims -------------------------------- *)
\* Number of entries that remote event ev left in the log buffer of record h.
EntriesOf(h, ev) ==
  Cardinality({i \in 1..Len(procs[h].logBuffer) :
                 procs[h].logBuffer[i].type = "cdp" /\ procs[h].logBuffer[i].ev = ev})

\* C1: crash recovery is bounded. In a chain of abnormal exits of an application started
\* with reconnect = true, no record has more than maxReconnects automatic reloads behind
\* it, and the record reached by the maxReconnects-th automatic reload, once it has
\* exited abnormally too, stays crashed and has no reload scheduled.
C1_BoundedRecovery ==
  /\ \A h \in Heap : procs[h].gChain <= maxReconnects
  /\ \A t \in timers : procs[t.h].gChain < maxReconnects
  /\ \A h \in Heap :
       (procs[h].gChain = maxReconnects /\ procs[h].process = "exited")
          => procs[h].status = "crashed"

\* C2: the delay of the k-th automatic reload of a chain is BaseDelay * k, where the k-th
\* reload is the one scheduled by the record with k - 1 automatic reloads behind it.
C2_LinearBackoff ==
  \A t \in timers : t.delay = BaseDelay * (procs[t.h].gChain + 1)

\* C3: stop on a registered id returns true and leaves the record with status stopped
\* and no connection handle, also when closing the connection throws.
C3_StopClearsHandle ==
  (returned.op = "stop" /\ returned.h # 0)
     => (returned.ok /\ returned.status = "stopped" /\ returned.cdpClient = NoClient)

C3_Witness ==
  /\ returned.op = "stop" /\ returned.h # 0 /\ returned.threw
  /\ procs[returned.h].process = "null"
  /\ procs[returned.h].status = "stopped"

\* C4: a record stopped by a caller is never restarted automatically: no record is
\* created by an automatic reload of a record that a caller had stopped.
C4_NoRestartAfterStop ==
  \A h \in Heap : procs[h].gOrigin = "auto" => ~procs[h].gAfterStop

\* C5: stopped is terminal: no step changes the status of a record that is stopped.
C5_StoppedTerminal ==
  [][\A h \in Heap : procs[h].status = "stopped" => procs'[h].status = "stopped"]_vars

\* C6: a start registers its record under an id that is not yet in the registry.
C6_FreshId ==
  [][(Len(procs') > Len(procs) /\ procs'[Len(procs')].gOrigin # "connect")
        => procs'[Len(procs')].id \notin DOMAIN electronProcesses]_vars

\* C7 as claimed: the record returned by start has status running when start returns.
C7_ReturnsRunning ==
  returned.op = "start" => returned.status = "running"

\* C7 as amended: the record returned by start has status running when start returns,
\* provided its child's exit event was not handled and it was not stopped before.
C7_ReturnsRunningUnlessExited ==
  (/\ returned.op = "start"
   /\ procs[returned.h].process = "alive"
   /\ ~procs[returned.h].gStopped)
     => returned.status = "running"

C7_Witness ==
  /\ returned.op = "start"
  /\ returned.status = "running"
  /\ procs[returned.h].process = "alive"
  /\ ~procs[returned.h].gStopped

\* C8: however often subscribe was called on a connection, a remote event leaves one
\* entry in the log buffer, never two.
C8_SubscribeIdempotent ==
  \A h \in Heap : \A ev \in 1..nEvents : EntriesOf(h, ev) <= 1

\* C9: successful execute calls subscribe event ingestion once per connection: on a
\* connection subscribed by execute alone there is at most one subscription, there is one
\* as soon as a command succeeded, and no remote event leaves two entries.
C9_SubscribedOnce ==
  \A c \in 1..Len(clients) :
    clients[c].gDirectSubs = 0 =>
      /\ clients[c].gExecSubs <= 1
      /\ clients[c].listeners = clients[c].gExecSubs
      /\ clients[c].gSent >= 1 => clients[c].listeners = 1
      /\ (\A d \in 1..Len(clients) :
            clients[d].owner = clients[c].owner => clients[d].gDirectSubs = 0)
           => \A ev \in 1..nEvents : EntriesOf(clients[c].owner, ev) <= 1

C9_Witness ==
  \E c \in 1..Len(clients) :
    /\ clients[c].gDirectSubs = 0
    /\ clients[c].gSent = 2
    /\ clients[c].listeners = 1
    /\ \E ev \in 1..nEvents : EntriesOf(clients[c].owner, ev) = 1

\* C10: every open connection is the current cdpClient of the record it was opened for
\* (so a record has at most one open connection); connections whose close failed are
\* left aside.
C10_OneOpenConnection ==
  \A c \in 1..Len(clients) :
    (clients[c].open /\ ~clients[c].closeThrew)
       => procs[clients[c].owner].cdpClient = c

\* The call that task tk stands for returns or throws in this step.
Ended(tk) == returned'.tid = tk.tid /\ returned.tid # tk.tid

\* C11: when the protocol call of an execute fails on an established connection, the
\* connection is closed and the record has no connection handle when the error reaches
\* the caller.
C11_FailureDiscardsConnection ==
  [][\A tk \in tasks :
       (tk.op = "execute" /\ tk.pc \in {"send", "closing"} /\ Ended(tk) /\ ~returned'.ok)
          => (procs'[tk.h].cdpClient = NoClient /\ ~clients'[tk.client].open)]_vars

\* C12: an execute that finds no connection handle and fails before a connection is open
\* (refresh failed, target not listed, CDP() rejected) throws, has sent no command, has
\* opened nothing and leaves cdpClient as it was: absent, unless another execute on the
\* record opened a connection meanwhile.
C12_OpenFailureLeavesNoHandle ==
  [][/\ \A tk \in tasks :
          (tk.op = "execute" /\ tk.pc \in {"refresh", "open"} /\ Ended(tk))
             => /\ ~returned'.ok
                /\ tk.gSends = 0
                /\ clients' = clients
                /\ procs'[tk.h].cdpClient = procs[tk.h].cdpClient
                /\ (\A c \in 1..Len(clients) : clients[c].owner # tk.h)
                      => procs'[tk.h].cdpClient = NoClient
     /\ (nCalls' = nCalls + 1 /\ returned'.tid = nCalls + 1 /\ returned'.op = "execute")
          => /\ ~returned'.ok
             /\ clients' = clients
             /\ procs'[returned'.h].cdpClient = NoClient
             /\ procs[returned'.h].cdpClient = NoClient]_vars

C12_Witness ==
  /\ returned.op = "execute" /\ ~returned.ok
  /\ returned.cdpClient = NoClient
  /\ Len(clients) = 0
  /\ TargetFound(procs[returned.h], "A")

\* C13: execute never retries: a call sends its command at most once and opens at most
\* one connection.
C13_NoRetry ==
  \A tk \in tasks : tk.op = "execute" => (tk.gSends <= 1 /\ tk.gOpens <= 1)

C13_Witness ==
  \E tk \in tasks :
    tk.op = "execute" /\ tk.pc = "closing" /\ tk.gSends = 1 /\ tk.gOpens = 1

\* C14: reload on an adopted record throws at once (no reload ever waits on an adopted
\* record) and changes nothing: records, registry and connections are as before.
C14_ReloadAdoptedFails ==
  /\ [](\A tk \in tasks : tk.op = "reload" => procs[tk.h].appPath # Existing)
  /\ [][(returned'.tid # returned.tid /\ returned'.op = "reload" /\ returned'.h # 0
           /\ procs[returned'.h].appPath = Existing)
          => (/\ ~returned'.ok
              /\ procs' = procs
              /\ electronProcesses' = electronProcesses
              /\ clients' = clients
              /\ tasks' = tasks)]_vars

C14_Witness ==
  /\ returned.op = "reload" /\ ~returned.ok /\ returned.h # 0
  /\ procs[returned.h].appPath = Existing
  /\ procs[returned.h].status = "running"
  /\ procs[returned.h].cdpClient # NoClient
  /\ clients[procs[returned.h].cdpClient].open

\* C15: stop on an id the registry does not hold returns false, does not throw and changes
\* nothing.
C15_StopUnknown ==
  [][(returned'.tid # returned.tid /\ returned'.op = "stop" /\ returned'.h = 0)
       => (/\ ~returned'.ok
           /\ ~returned'.threw
           /\ procs' = procs
           /\ electronProcesses' = electronProcesses
           /\ clients' = clients
           /\ tasks' = tasks
           /\ timers' = timers)]_vars

C15_Witness ==
  /\ returned.op = "stop" /\ returned.h = 0 /\ ~returned.ok
  /\ \E h \in Heap : procs[h].status = "running" /\ procs[h].cdpClient # NoClient

\* C16: connect registers its record under an id that is not yet in the registry.
C16_ConnectFreshId ==
  [][(Len(procs') > Len(procs) /\ procs'[Len(procs')].gOrigin = "connect")
        => procs'[Len(procs')].id \notin DOMAIN electronProcesses]_vars

\* C17: the exit handler sets the status by the exit code alone: stopped for code 0,
\* crashed for a non-zero code and for null, whatever the status was.
C17_ExitClassified ==
  [][\A h \in Heap :
       (procs[h].process = "alive" /\ procs'[h].process = "exited")
          => /\ procs'[h].gExitCode \in ExitCodes
             /\ procs'[h].gExitCode = 0 => procs'[h].status = "stopped"
             /\ procs'[h].gExitCode # 0 => procs'[h].status = "crashed"]_vars

C17_Witness ==
  \E h \in Heap :
    /\ procs[h].process = "exited" /\ procs[h].gExitCode = NullCode
    /\ procs[h].status = "crashed" /\ procs[h].gUserStopped

\* C18: the exit handler schedules a reload only for an abnormal exit of a record with
\* reconnect: an exit with code 0, and any exit of a record without reconnect, schedules
\* nothing and leaves reconnectAttempts as it was.
C18_ReloadOnlyWithFlag ==
  [][\A h \in Heap :
       (/\ procs[h].process = "alive" /\ procs'[h].process = "exited"
        /\ (~procs[h].reconnect \/ procs'[h].gExitCode = 0))
          => (timers' = timers /\ procs'[h].reconnectAttempts = procs[h].reconnectAttempts)]_vars

C18_Witness ==
  /\ timers = {}
  /\ \E h \in Heap : /\ ~procs[h].reconnect /\ procs[h].gExitCode = 1
                     /\ procs[h].status = "crashed" /\ procs[h].reconnectAttempts = 0
  /\ \E h \in Heap : /\ procs[h].reconnect /\ procs[h].gExitCode = 0
                     /\ procs[h].reconnectAttempts = 0

\* C19: when a reload returns its new record, the old record is still registered under
\* its id with status stopped, and the new record has another id and the old record's
\* appPath, debugPort and reconnect.
C19_ReloadKeepsOldStopped ==
  [][(returned'.tid # returned.tid /\ returned'.op = "start"
        /\ procs'[returned'.h].gOrigin = "reload")
       => LET new == procs'[returned'.h]
              old == procs'[new.gSrc]
          IN /\ old.status = "stopped"
             /\ old.id \in DOMAIN electronProcesses'
             /\ electronProcesses'[old.id] = new.gSrc
             /\ new.id # old.id
             /\ new.appPath = old.appPath
             /\ new.debugPort = old.debugPort
             /\ new.reconnect = old.reconnect]_vars

C21_TargetNotFound ==
  [][/\ \A tk \in tasks' \ tasks :
          (tk.op = "execute" /\ tk.pc = "open")
             => tk.target \in Range(procs'[tk.h].targets)
     /\ \A tk \in tasks \ tasks' :
          (tk.op = "execute" /\ tk.pc = "refresh"
             /\ tk.target \notin Range(procs'[tk.h].targets))
             => /\ Ended(tk) /\ ~returned'.ok
                /\ clients' = clients
                /\ procs'[tk.h].cdpClient = procs[tk.h].cdpClient
     /\ (nCalls' = nCalls + 1 /\ returned'.tid = nCalls + 1 /\ returned'.op = "execute")
          => /\ ~returned'.ok
             /\ clients' = clients
             /\ procs'[returned'.h].cdpClient = procs[returned'.h].cdpClient]_vars

C21_Witness ==
  /\ nCalls = 2 /\ tasks = {}
  /\ returned.op = "execute" /\ ~returned.ok
  /\ procs[returned.h].hasTargets
  /\ procs[returned.h].targets = <<>>
  /\ procs[returned.h].lastTargetUpdate # NoTime
  /\ Len(clients) = 0

\* C22: an execute that has to connect refreshes the target list first whenever the list
\* is absent, empty or older than the freshness window.
C22_RefreshWhenEmptyOrStale ==
  [][\A h \in Heap :
       (/\ nCalls' = nCalls + 1
        /\ procs[h].cdpClient = NoClient
        /\ \/ ~procs[h].hasTargets
           \/ procs[h].targets = <<>>
           \/ (procs[h].lastTargetUpdate # NoTime
                 /\ now - procs[h].lastTargetUpdate > FreshnessWindow))
          => /\ ~(returned'.tid = nCalls + 1 /\ returned'.op = "execute" /\ returned'.h = h)
             /\ \A tk \in tasks' \ tasks :
                  (tk.op = "execute" /\ tk.h = h) => tk.pc = "refresh"]_vars

C24_ConnectAllOrNothing ==
  [][\A tk \in tasks \ tasks' :
       tk.op = "connect"
          => /\ Ended(tk)
             /\ ~returned'.ok => (procs' = procs /\ electronProcesses' = electronProcesses)
             /\ returned'.ok =>
                  LET h == Len(procs) + 1 IN
                  /\ Len(procs') = h
                  /\ returned'.h = h
                  /\ procs'[h].status = "running"
                  /\ procs'[h].process = "null"
                  /\ procs'[h].debugPort = tk.debugPort
                  /\ procs'[h].appPath = Existing
                  /\ procs'[h].hasTargets /\ Len(procs'[h].targets) >= 1
                  /\ procs'[h].id \in DOMAIN electronProcesses'
                  /\ electronProcesses'[procs'[h].id] = h]_vars

C24_Witness ==
  /\ returned.op = "connect" /\ ~returned.ok
  /\ \E h \in Heap : procs[h].appPath = Existing /\ electronProcesses[procs[h].id] = h

\* C25: the initial target discovery of start is not fatal: the record is registered in
\* the step that starts the settle delay, and start returns it whether or not the
\* discovery succeeded; a record nobody refreshed has no target list then.
C25_DiscoveryFailureNotFatal ==
  /\ [][/\ \A tk \in tasks' \ tasks :
             (tk.op = "start" /\ tk.pc = "settle")
                => (/\ procs'[tk.h].id \in DOMAIN electronProcesses'
                    /\ electronProcesses'[procs'[tk.h].id] = tk.h)
        /\ \A tk \in tasks \ tasks' :
             (tk.op = "start" /\ tk.pc = "discover")
                => (Ended(tk) /\ returned'.ok /\ returned'.h = tk.h)]_vars
  /\ [](\A h \in Heap : procs[h].lastTargetUpdate = NoTime
          => (procs[h].hasTargets <=> procs[h].appPath = Existing))

C25_Witness ==
  /\ returned.op = "start" /\ returned.ok
  /\ ~procs[returned.h].hasTargets
  /\ procs[returned.h].id \in DOMAIN electronProcesses
  /\ procs[returned.h].status = "running"

\* The entries that protocol event number n left in the log buffer of record h.
EventLog(h, n) ==
  SelectSeq(procs[h].logBuffer, LAMBDA e : "payload" \in DOMAIN e /\ e.ev = n)

\* C26: malformed event payloads do not crash ingestion. For every event kind, a callback
\* invoked with a payload that lacks the fields it expects raises no error and appends no
\* entry for that event.
C26_MalformedPayloadDropped ==
  \A c \in 1..Len(clients) :
    (clients[c].gEvent.n > 0 /\ ~clients[c].gEvent.payload.whole)
      => /\ ~clients[c].gEvent.raised
         /\ Len(EventLog(clients[c].owner, clients[c].gEvent.n)) = 0

\* C27: a network response event is logged as one entry of category network whose level
\* is error for a status of 400 or more, warn for a status from 300 to 399, and info for
\* a status below 300.
C27_ResponseLevelByStatus ==
  \A c \in 1..Len(clients) :
    LET e == clients[c].gEvent
        log == EventLog(clients[c].owner, e.n)
    IN (e.n > 0 /\ e.payload.kind = "responseReceived" /\ e.payload.whole)
         => /\ Len(log) = 1
            /\ log[1].type = "network"
            /\ log[1].source = "network.response"
            /\ (e.payload.status >= 400 => log[1].level = "error")
            /\ (e.payload.status >= 300 /\ e.payload.status < 400 => log[1].level = "warn")
            /\ (e.payload.status < 300 => log[1].level = "info")

\* A response with status 404 was delivered and logged with level error.
C27_Witness ==
  \E c \in 1..Len(clients) :
    /\ clients[c].gEvent.payload.kind = "responseReceived"
    /\ clients[c].gEvent.payload.status = 404
    /\ \E i \in 1..Len(procs[clients[c].owner].logBuffer) :
         LET x == procs[clients[c].owner].logBuffer[i]
         IN /\ x.ev = clients[c].gEvent.n
            /\ x.type = "network"
            /\ x.level = "error"

\* C28: discover returns, for scope managed, every record in the registry and an empty
\* network list without probing any port; for scope network, an empty managed list and
\* the fixed ports 9222, 9223, 9229 that are live and serve a JSON array at the
\* target-list path; for scope all, which is the default, both (the registry as it was
\* when discover was called).
C28_DiscoverScopes ==
  [][/\ (nCalls' = nCalls + 1 /\ returned'.op = "discover" /\ returned'.tid = nCalls + 1)
        => /\ returned'.discovery.gParam = "managed"
           /\ returned'.discovery.managed =
                {electronProcesses[id] : id \in DOMAIN electronProcesses}
           /\ returned'.discovery.network = <<>>
           /\ returned'.discovery.gProbed = {}
           /\ tasks' = tasks
     /\ \A tk \in tasks' \ tasks :
          tk.op = "discover" => tk.found.gParam \in {"network", "all", NoScope}
     /\ \A tk \in tasks :
          (tk.op = "discover" /\ Ended(tk))
            => LET r == returned'.discovery
               IN /\ r.network = SelectSeq(<<9222, 9223, 9229>>, LAMBDA p : p \in r.gServing)
                  /\ r.gServing \subseteq r.gProbed
                  /\ r.gProbed = {9222, 9223, 9229}
                  /\ r.gParam = "network" => r.managed = {}
                  /\ r.gParam \in {"all", NoScope} => r.managed = tk.gRegistry
    ]_vars

\* discover with the default scope returned a registered record and some, not all, of
\* the fixed ports.
C28_Witness ==
  /\ returned.op = "discover"
  /\ returned.discovery.gParam = NoScope
  /\ returned.discovery.managed # {}
  /\ Len(returned.discovery.network) \in {1, 2}
  /\ returned.discovery.gServing # returned.discovery.gProbed

\* C29: the debugPort of a record created by start is the port the caller supplied when
\* one is given, and otherwise an integer of the range 9222 .. 9999.
C29_DebugPort ==
  \A tk \in tasks :
    (tk.op = "start" /\ tk.pc = "settle")
      => /\ tk.debugPort # NoPort => procs[tk.h].debugPort = tk.debugPort
         /\ tk.debugPort = NoPort => procs[tk.h].debugPort \in 9222..9999

\* Two starts are in progress: one was given port 9223, the other was given none and drew
\* the last port of the range.
C29_Witness ==
  \E a, b \in tasks :
    /\ a.op = "start" /\ a.pc = "settle" /\ a.debugPort = 9223 /\ procs[a.h].debugPort = 9223
    /\ b.op = "start" /\ b.pc = "settle" /\ b.debugPort = NoPort /\ procs[b.h].debugPort = 9999

\* C30: an explicit reload of a running owned record spawns one new child and creates one
\* new record, whatever the reconnect flag of the record: the exit event of the child
\* that the reload's stop killed schedules no automatic reload of the same record.
C30_ExplicitReloadSpawnsOnce ==
  [][\A h \in Heap :
       (/\ procs[h].process = "alive"
        /\ procs'[h].process = "exited"
        /\ \/ \E tk \in tasks : tk.op = "reload" /\ ~tk.auto /\ tk.pc = "wait" /\ tk.h = h
           \/ \E j \in Heap : procs[j].gOrigin = "reload" /\ procs[j].gSrc = h)
         => {t \in timers' : t.h = h} = {}
    ]_vars

\* C31: in every reachable state a record whose status is stopped or crashed holds no
\* connection handle, however stop and the exit event interleave with an execute that is
\* in flight or issued later.
C31_NoHandleUnlessRunning ==
  \A h \in Heap :
    procs[h].status \in {"stopped", "crashed"} => procs[h].cdpClient = NoClient

\* C32: the failure cleanup of an execute call discards only the connection the call
\* used. If the record's cdpClient was replaced by a newer connection while the call was in
\* flight, the failing call leaves that newer handle on the record.
C32_CleanupOwnConnectionOnly ==
  [][\A tk \in tasks :
       (/\ tk.op = "execute"
        /\ Ended(tk)
        /\ ~returned'.ok
        /\ procs[tk.h].cdpClient # NoClient
        /\ procs[tk.h].cdpClient # tk.client)
         => procs'[tk.h].cdpClient = procs[tk.h].cdpClient
    ]_vars

\* C33: a command issued by execute(record, targetId, ...) is sent only over a connection
\* that was opened to targetId, also when the record has a cached connection.
C33_SentToItsTarget ==
  \A tk \in tasks :
    (tk.op = "execute" /\ tk.pc = "send") => clients[tk.client].target = tk.target

\* C34: when the exit event of a record's child has been handled, the record holds no
\* connection handle, whether the exit was normal or abnormal, and an error thrown while
\* closing the connection prevents neither the clearing of the handle nor the
\* crash-recovery decision: a reload is scheduled exactly when the code is not 0, the
\* record has reconnect, and its attempts, this one counted, do not exceed five.
C34_ExitClearsHandle ==
  [][\A h \in Heap :
       (procs[h].process = "alive" /\ procs'[h].process = "exited")
         => /\ procs'[h].cdpClient = NoClient
            /\ ({t \in timers' \ timers : t.h = h} # {})
                 <=> (/\ procs'[h].gExitCode # 0
                      /\ procs[h].reconnect
                      /\ procs[h].reconnectAttempts + 1 <= 5)
    ]_vars

\* A record with reconnect held a connection whose close threw when its child exited with
\* code 1: the handle is gone and the reload is scheduled.
C34_Witness ==
  \E h \in Heap, c \in 1..Len(clients) :
    /\ clients[c].owner = h
    /\ clients[c].closeThrew
    /\ procs[h].process = "exited"
    /\ procs[h].gExitCode = 1
    /\ procs[h].reconnect
    /\ procs[h].cdpClient = NoClient
    /\ \E t \in timers : t.h = h

\* C35: every record created by start, one created by an explicit or automatic reload
\* included, begins with reconnectAttempts = 0, and the reconnectAttempts of a record is
\* changed only by the handling of that record's own abnormal exit, which adds one when the
\* record has reconnect.
C35_AttemptsPerRecord ==
  [][/\ \A h \in (1..Len(procs')) \ Heap : procs'[h].reconnectAttempts = 0
     /\ \A h \in Heap :
          procs'[h].reconnectAttempts # procs[h].reconnectAttempts
            => /\ procs[h].process = "alive"
               /\ procs'[h].process = "exited"
               /\ procs'[h].gExitCode # 0
               /\ procs[h].reconnect
               /\ procs'[h].reconnectAttempts = procs[h].reconnectAttempts + 1
    ]_vars

\* A record that counted one attempt at its abnormal exit was restarted by crash recovery,
\* and the new record has counted none.
C35_Witness ==
  \E h, j \in Heap :
    /\ procs[h].reconnectAttempts = 1
    /\ procs[j].gOrigin = "auto"
    /\ procs[j].gSrc = h
    /\ procs[j].reconnectAttempts = 0

\* C36: target-list refresh is last-writer-wins. When refreshes of one record overlap,
\* none is cancelled by the completion of another, and a refresh that completes
\* successfully leaves on the record the list it received and the time of its completion,
\* so that after two of them the record holds what the one applied last wrote.
C36_LastWriterWins ==
  [][\A tk \in tasks :
       (tk.op = "refresh" /\ Ended(tk))
         => /\ \A other \in tasks \ {tk} : other.op = "refresh" => other \in tasks'
            /\ returned'.ok
                 => /\ procs'[tk.h].hasTargets
                    /\ procs'[tk.h].targets = returned'.list
                    /\ procs'[tk.h].lastTargetUpdate = now'
    ]_vars

\* Two refreshes of the record overlapped and both wrote a list: the one called first was
\* applied last, and the record holds its list.
C36_Witness ==
  /\ nCalls = 3
  /\ tasks = {}
  /\ returned.op = "refresh"
  /\ returned.ok
  /\ returned.tid = 2
  /\ procs[returned.h].gRefreshed = 2
  /\ procs[returned.h].targets = returned.list

\* C37: a refreshTargets call that fails (missing debug port, HTTP error, timeout or
\* unparsable body) leaves the record's target list and lastTargetUpdate as they were
\* before the call completed, and propagates the error.
C37_FailedRefreshChangesNothing ==
  [][\A tk \in tasks :
       (tk.op = "refresh" /\ Ended(tk) /\ ~returned'.ok)
         => /\ procs'[tk.h].hasTargets = procs[tk.h].hasTargets
            /\ procs'[tk.h].targets = procs[tk.h].targets
            /\ procs'[tk.h].lastTargetUpdate = procs[tk.h].lastTargetUpdate
    ]_vars

\* C38: a record's status is running only from its creation. No operation or callback
\* (stop, exit, reload, execute, automatic recovery) sets the status of an existing record
\* to running once it is stopped or crashed; a restart is a new record.
C38_NeverBackToRunning ==
  [][\A h \in Heap : procs[h].status # "running" => procs'[h].status # "running"]_vars

\* A record whose child crashed was restarted by crash recovery: the old record is not
\* running (the reload stopped it) and the running one is another record.
C38_Witness ==
  \E h, j \in Heap :
    /\ h # j
    /\ procs[h].gExitCode = 1
    /\ procs[h].status = "stopped"
    /\ procs[j].gOrigin = "auto"
    /\ procs[j].gSrc = h
    /\ procs[j].status = "running"

\* C39: once a record is registered, its id, appPath, debugPort, startTime and reconnect
\* flag never change: stop, reload, exit handling, refresh, connect and execute leave these
\* fields of every record as they were.
C39_IdentityFieldsFrozen ==
  [][\A h \in Heap :
       /\ procs'[h].id = procs[h].id
       /\ procs'[h].appPath = procs[h].appPath
       /\ procs'[h].debugPort = procs[h].debugPort
       /\ procs'[h].startTime = procs[h].startTime
       /\ procs'[h].reconnect = procs[h].reconnect
    ]_vars

\* A record started at time 0 was stopped and reloaded after the clock had moved: it
\* still has its id, port and start time, and the new record has the same port and flag.
C39_Witness ==
  \E h, j \in Heap :
    /\ procs[h].gStopped
    /\ procs[h].id = <<"electron", 0>>
    /\ procs[h].startTime = 0
    /\ procs[h].debugPort = 9223
    /\ procs[j].gOrigin = "reload"
    /\ procs[j].gSrc = h
    /\ procs[j].startTime > 0
    /\ procs[j].debugPort = procs[h].debugPort
    /\ procs[j].reconnect = procs[h].reconnect
====
